---- MODULE Spec2Model ----
(***************************************************************************)
(* Model of AttensysUI/src/hooks/useFetchCID.ts: the useFetchCID hook.     *)
(*                                                                         *)
(* One module-level LRU cache (lines 35-38) is shared by every hook        *)
(* instance; each instance owns a status mapping (line 40).  JavaScript    *)
(* runs one synchronous segment at a time: `running` names the call whose  *)
(* synchronous segment is executing (0 when the event loop is idle), and   *)
(* `mapping` names the fetchMultipleCIDs call whose CIDs.map loop is       *)
(* executing.  A call is suspended only at its two awaits: the             *)
(* collaborator's get (line 58) and the retry timer (lines 97-99).         *)
(* setStatus is called with a functional updater (line 44), which React    *)
(* applies in call order to the latest state; `status` is the state that   *)
(* results from the updaters queued so far.                                *)
(***************************************************************************)
EXTENDS Integers, Sequences, FiniteSets, TLC

VARIABLES now, cache, status, calls, batches, running, mapping, limit

vars == <<now, cache, status, calls, batches, running, mapping, limit>>

(***************************************************************************)
(* Bounds of the model.  A behaviour is bounded by limit, fixed by the     *)
(* initial state: the calls of fetchCIDContent and of fetchMultipleCIDs   *)
(* made, the fetches whose gets may reject, and the hook instances         *)
(* mounted.                                                                *)
(***************************************************************************)
\* Total number of fetchCIDContent invocations in a behaviour of Spec.
MaxCalls == 2
\* Capacity of the cache.  The source sets max: 1000 (line 36); the model
\* runs the same eviction rule at a capacity that three CIDs can exceed.
CacheMax == 2
\* Total number of fetchMultipleCIDs invocations in a behaviour.
MaxBatches == 1
\* Number of fetches in a behaviour whose collaborator gets may reject (any
\* number of times, in any way).
MaxFaulty == 1
\* Calls in a behaviour of SpecFanOut, which holds a three-element fan-out.
FanOutCalls == 3
\* Calls in a behaviour of SpecCache, which overflows the cache after a hit.
CacheCalls == 4
\* Calls in a behaviour of SpecTtl: an entry is stored, read, and outlived.
TtlCalls == 3
\* Calls in a behaviour of SpecOrder: a fetch, then a fan-out of two.
OrderCalls == 3

(***************************************************************************)
(* Program constants.                                                      *)
(***************************************************************************)
DEFAULT_MAX_RETRIES == 2
RETRY_DELAY == 1000
DEFAULT_TTL == 1000 * 60 * 30

CIDs == {"a", "b", "c"}
EmptyCID == ""
AllCIDs == CIDs \cup {EmptyCID}
Instances == {"A", "B"}
BatchInputs ==
    { <<>>, <<"a", "b", "c">>, <<"a", "", "b">>, <<"b", "a">>, <<"a", "a">> }

(***************************************************************************)
(* JavaScript values.                                                      *)
(***************************************************************************)
JSNull == [type |-> "null"]
JSUndefined == [type |-> "undefined"]
Str(s) == [type |-> "string", s |-> s]
\* Content is addressed by its CID: the gateway's response for a CID.
Payload(cid) == [type |-> "object", cid |-> cid]
\* JavaScript truthiness, as tested by `if (!CID)` and `if (cachedResponse)`.
Truthy(v) == v.type \notin {"null", "undefined"}
IsFalsyCID(cid) == cid = EmptyCID

(***************************************************************************)
(* The cache (lines 35-38): an lru-cache LRUCache built with max and ttl.  *)
(* It is a sequence of entries from least to most recently used; each     *)
(* entry keeps the time it was set.  With these options get does not      *)
(* refresh an entry's age, an entry is stale once more than ttl has       *)
(* passed since it was set, get deletes a stale entry and answers         *)
(* undefined, and set of undefined deletes the key.                       *)
(***************************************************************************)
CacheCapacity == CacheMax
CacheTtl == DEFAULT_TTL

CacheKeys(c) == { c[i].key : i \in 1..Len(c) }
CacheIndex(c, k) == CHOOSE i \in 1..Len(c) : c[i].key = k
CacheWithout(c, k) == SelectSeq(c, LAMBDA e : e.key # k)
IsStale(e, t) == t - e.start > CacheTtl

\* cache.get(k) at time t: the value answered.
CacheGetValue(c, k, t) ==
    IF k \notin CacheKeys(c) THEN JSUndefined
    ELSE IF IsStale(c[CacheIndex(c, k)], t) THEN JSUndefined
    ELSE c[CacheIndex(c, k)].value

\* cache.get that leaves the recency order alone (first in, first out).
CacheAfterGetNoTouch(c, k, t) ==
    IF k \notin CacheKeys(c) THEN c
    ELSE IF IsStale(c[CacheIndex(c, k)], t) THEN CacheWithout(c, k)
    ELSE c

\* cache.get with updateAgeOnGet: a read restarts the entry's age.
CacheAfterGetRefresh(c, k, t) ==
    IF k \notin CacheKeys(c) THEN c
    ELSE IF IsStale(c[CacheIndex(c, k)], t) THEN CacheWithout(c, k)
    ELSE Append(CacheWithout(c, k), [c[CacheIndex(c, k)] EXCEPT !.start = t])

\* cache.get(k) at time t: the cache afterwards.
CacheAfterGet(c, k, t) ==
    IF k \notin CacheKeys(c) THEN c
    ELSE IF IsStale(c[CacheIndex(c, k)], t) THEN CacheWithout(c, k)
    ELSE Append(CacheWithout(c, k), c[CacheIndex(c, k)])

\* cache.set guarded by `if (v)`: a null result is not stored.
CacheAfterSetSkipNull(c, k, v, t) ==
    IF ~Truthy(v) THEN c
    ELSE IF k \in CacheKeys(c)
         THEN Append(CacheWithout(c, k), [key |-> k, value |-> v, start |-> t])
    ELSE IF Len(c) >= CacheCapacity
         THEN Append(Tail(c), [key |-> k, value |-> v, start |-> t])
    ELSE Append(c, [key |-> k, value |-> v, start |-> t])

\* cache.set(k, v) at time t: the cache afterwards.
CacheAfterSet(c, k, v, t) ==
    IF v = JSUndefined THEN CacheWithout(c, k)
    ELSE IF k \in CacheKeys(c)
         THEN Append(CacheWithout(c, k), [key |-> k, value |-> v, start |-> t])
    ELSE IF Len(c) >= CacheCapacity
         THEN Append(Tail(c), [key |-> k, value |-> v, start |-> t])
    ELSE Append(c, [key |-> k, value |-> v, start |-> t])

(***************************************************************************)
(* The status mapping (lines 26-30, 40-50).  An entry is a function from  *)
(* the names of the fields it has to their values.                        *)
(***************************************************************************)
NoFields == [f \in {} |-> JSUndefined]
\* Object spread { ...f, ...g }: g's fields win.
Spread(f, g) ==
    [k \in DOMAIN f \cup DOMAIN g |-> IF k \in DOMAIN g THEN g[k] ELSE f[k]]

\* The updater of lines 44-47 without the ...prev of line 45.
updateStatusNoSpread(prev, CID, updates, t) ==
    [k \in {CID} |->
        Spread(Spread(IF CID \in DOMAIN prev THEN prev[CID] ELSE NoFields,
                      updates),
               [lastUpdated |-> t])]

\* The updater of setStatus (lines 44-47) applied to prev at time t.
updateStatus(prev, CID, updates, t) ==
    Spread(prev,
           [k \in {CID} |->
               Spread(Spread(IF CID \in DOMAIN prev THEN prev[CID] ELSE NoFields,
                             updates),
                      [lastUpdated |-> t])])

\* Readers (lines 150-161) over one instance's status mapping.
isLoading(st, CID) ==
    IF CID \in DOMAIN st /\ "loading" \in DOMAIN st[CID]
    THEN st[CID].loading ELSE FALSE
\* getError without the ?? null of line 155.
getErrorNoDefault(st, CID) ==
    IF CID \in DOMAIN st /\ "error" \in DOMAIN st[CID]
    THEN st[CID].error ELSE JSUndefined
getError(st, CID) ==
    IF CID \in DOMAIN st /\ "error" \in DOMAIN st[CID]
       /\ st[CID].error \notin {JSNull, JSUndefined}
    THEN st[CID].error ELSE JSNull
getLastUpdated(st, CID) ==
    IF CID \in DOMAIN st /\ "lastUpdated" \in DOMAIN st[CID]
    THEN st[CID].lastUpdated ELSE -1

(***************************************************************************)
(* What the collaborator's get may reject with (line 61, error: unknown): *)
(* null, undefined, or an object with optional message, response.status,  *)
(* name and code.  A message is a sequence of tokens, or a non-string.    *)
(***************************************************************************)
NoMessage == [type |-> "undefined", words |-> <<>>]
StrMessage(ws) == [type |-> "string", words |-> ws]
NumMessage == [type |-> "number", words |-> <<>>]
Absent == "absent"
AuthCode == "ERR_ID:00006"

ErrObject(m, st, n, c) ==
    [type |-> "object", message |-> m, status |-> st, name |-> n, code |-> c]
ThrownNull == [type |-> "null"]
ThrownUndefined == [type |-> "undefined"]

Messages ==
    { NoMessage, NumMessage,
      StrMessage(<<"Network", "Error">>),
      StrMessage(<<"Request", "failed", "403">>),
      StrMessage(<<"Authentication Failed", "token">>) }
ErrorObjects ==
    { ErrObject(m, st, n, c) :
        m \in Messages, st \in {"absent", "403", "500"},
        n \in {"Error", "AuthenticationError"}, c \in {Absent, AuthCode, "ERR_OTHER"} }
\* The rejections the collaborator is driven with: every object that departs
\* from a plain network error in at most one field, two objects that depart
\* in more, and the two non-objects.
PlainError == ErrObject(StrMessage(<<"Network", "Error">>), "absent", "Error", Absent)
Departures(e) ==
    Cardinality({ f \in {"message", "status", "name", "code"} : e[f] # PlainError[f] })
Rejections ==
    { e \in ErrorObjects : Departures(e) <= 1 }
    \cup { ErrObject(NumMessage, "absent", "AuthenticationError", Absent),
           ErrObject(StrMessage(<<"Request", "failed", "403">>), "403",
                     "AuthenticationError", AuthCode) }
    \cup { ThrownNull, ThrownUndefined }

\* What a rejection is, whatever the hook makes of it: "malformed" when it
\* is not an object whose message is a string or absent (the shape lines
\* 64-71 assume), "auth" when it is such an object and carries one of the
\* five marks of an authorization failure, "transient" otherwise.
Shape(e) ==
    IF e.type # "object" \/ e.message.type \notin {"string", "undefined"}
    THEN "malformed"
    ELSE IF \/ \E i \in 1..Len(e.message.words) :
                  e.message.words[i] \in {"403", "Authentication Failed"}
            \/ e.status = "403"
            \/ e.name = "AuthenticationError"
            \/ e.code = AuthCode
    THEN "auth"
    ELSE "transient"

\* String.prototype.includes on a tokenised message.
Includes(ws, w) == \E i \in 1..Len(ws) : ws[i] = w

\* normalizedError?.message?.includes(w): "true", "false" (also undefined),
\* or "throws" when message is neither a string nor absent.
MessageIncludes(e, w) ==
    IF e.type # "object" THEN "false"
    ELSE IF e.message.type = "undefined" THEN "false"
    ELSE IF e.message.type # "string" THEN "throws"
    ELSE IF Includes(e.message.words, w) THEN "true" ELSE "false"

\* typeof e === "object" && "response" in e && e?.response?.status === 403:
\* typeof null is "object" and the in operator throws on null.
ResponseIs403(e) ==
    IF e.type = "undefined" THEN "false"
    ELSE IF e.type = "null" THEN "throws"
    ELSE IF e.status = "403" THEN "true" ELSE "false"

NameIsAuth(e) ==
    IF e.type = "object" /\ e.name = "AuthenticationError" THEN "true" ELSE "false"

CodeIsAuth(e) ==
    IF e.type = "undefined" THEN "false"
    ELSE IF e.type = "null" THEN "throws"
    ELSE IF e.code = AuthCode THEN "true" ELSE "false"

\* a || b with short circuit, where either side may throw.
OrElse(a, b) == IF a = "false" THEN b ELSE a

\* isAuthError without the response.status clause of lines 77-79.
isAuthErrorNoStatus(e) ==
    OrElse(MessageIncludes(e, "403"),
    OrElse(MessageIncludes(e, "Authentication Failed"),
    OrElse(NameIsAuth(e),
           CodeIsAuth(e))))

\* isAuthError (lines 74-83): "true", "false" or "throws".
isAuthError(e) ==
    OrElse(MessageIncludes(e, "403"),
    OrElse(MessageIncludes(e, "Authentication Failed"),
    OrElse(ResponseIs403(e),
    OrElse(NameIsAuth(e),
           CodeIsAuth(e)))))

\* normalizedError.message (lines 88, 105) throws on null and undefined.
ReadsMessage(e) == e.type = "object"

\* The message of the TypeError the catch block of fetchWithRetry raises.
TypeErrorOf(e) ==
    IF e.type = "null" THEN Str("TypeError: in operator on null")
    ELSE IF e.type = "undefined" THEN Str("TypeError: reading message of undefined")
    ELSE Str("TypeError: includes is not a function")

(***************************************************************************)
(* Calls.  A call is one invocation of fetchCIDContent (lines 113-138)    *)
(* through instance inst; pc is the source line it executes next.         *)
(*   invocations  collaborator gets made by this call (line 58)           *)
(*   waits        the retry delays it has taken (line 98)                 *)
(*   hist         how each of its collaborator gets ended: "ok", or the   *)
(*                Shape of the rejection                                  *)
(*   lookup       whether line 118 found a cached response                *)
(*   lookupAt     the time at which line 117 read the cache (-1: not yet)  *)
(***************************************************************************)
\* A call that reads the cache first, without the loading mark of line 116.
NewCallSkipsMark(i, cid, b) ==
    [inst |-> i, cid |-> cid, batch |-> b, pc |-> "L117", retryCount |-> 0,
     invocations |-> 0, waits |-> <<>>, hist |-> <<>>, wakeAt |-> 0,
     lookup |-> "none", lookupAt |-> -1, data |-> JSUndefined, exc |-> JSUndefined,
     outcome |-> "pending", result |-> JSUndefined]

NewCall(i, cid, b) ==
    [inst |-> i, cid |-> cid, batch |-> b, pc |-> "L116", retryCount |-> 0,
     invocations |-> 0, waits |-> <<>>, hist |-> <<>>, wakeAt |-> 0,
     lookup |-> "none", lookupAt |-> -1, data |-> JSUndefined, exc |-> JSUndefined,
     outcome |-> "pending", result |-> JSUndefined]

\* `return v` from fetchCIDContent: the call's promise resolves with v.
Resolved(call, v) ==
    [call EXCEPT !.pc = "done", !.outcome = "resolved", !.result = v,
                 !.data = JSUndefined, !.exc = JSUndefined]

\* fetchCIDContent without the guard of line 115.
EnterCallNoGuard(i, cid, b) == NewCall(i, cid, b)

\* Line 115: a falsy CID returns null before anything else happens.
EnterCall(i, cid, b) ==
    IF IsFalsyCID(cid) THEN Resolved(NewCall(i, cid, b), JSNull)
    ELSE NewCall(i, cid, b)

Idle == running = 0 /\ mapping = 0
CallIds == 1..Len(calls)
AtLine(c, l) == c \in CallIds /\ running = c /\ calls[c].pc = l
Suspended(c, l) == c \in CallIds /\ Idle /\ calls[c].pc = l

\* After a synchronous segment of a call ends, control returns to the map
\* loop that started it or to the event loop.
Yield == running' = 0

\* The calls that have had a collaborator get rejected.
Faulty == { c \in CallIds : \E k \in 1..Len(calls[c].hist) : calls[c].hist[k] # "ok" }

\* CIDs are opaque keys, so behaviours that differ only by renaming them
\* are the same behaviour: a CID is first used only after the CIDs before it
\* in CIDOrder have been used.
CIDOrder == <<"a", "b", "c">>
UsedCIDs == { calls[c].cid : c \in CallIds }
InOrder(used, cid) ==
    \/ cid = EmptyCID
    \/ \E k \in 1..Len(CIDOrder) :
          /\ CIDOrder[k] = cid
          /\ \A j \in 1..(k - 1) : CIDOrder[j] \in used
InOrderSeq(used, cids) ==
    \A k \in 1..Len(cids) :
        InOrder(used \cup { cids[j] : j \in 1..(k - 1) }, cids[k])

Start ==
    /\ now = 0
    /\ cache = <<>>
    /\ status = [i \in Instances |-> NoFields]
    /\ calls = <<>>
    /\ batches = <<>>
    /\ running = 0
    /\ mapping = 0

Init ==
    /\ Start
    /\ limit = [calls |-> MaxCalls, faulty |-> MaxFaulty,
                batches |-> MaxBatches, insts |-> {"A"}]
InitFanOut ==
    /\ Start
    /\ limit = [calls |-> FanOutCalls, faulty |-> MaxFaulty,
                batches |-> MaxBatches, insts |-> {"A"}]
InitCache ==
    /\ Start
    /\ limit = [calls |-> CacheCalls, faulty |-> MaxFaulty,
                batches |-> 0, insts |-> {"A"}]
InitTtl ==
    /\ Start
    /\ limit = [calls |-> TtlCalls, faulty |-> MaxFaulty,
                batches |-> 0, insts |-> {"A"}]
InitOrder ==
    /\ Start
    /\ limit = [calls |-> OrderCalls, faulty |-> MaxFaulty,
                batches |-> MaxBatches, insts |-> {"A"}]
\* Two components have mounted the hook.
InitShare ==
    /\ Start
    /\ limit = [calls |-> MaxCalls, faulty |-> MaxFaulty,
                batches |-> MaxBatches, insts |-> Instances]

\* A consumer calls fetchCIDContent(cid) (lines 113-115).
FetchCIDContent(i, cid) ==
    /\ Idle
    /\ Len(calls) < limit.calls
    /\ InOrder(UsedCIDs, cid)
    /\ calls' = Append(calls, EnterCall(i, cid, 0))
    /\ running' = IF IsFalsyCID(cid) THEN 0 ELSE Len(calls) + 1
    /\ UNCHANGED <<now, cache, status, batches, mapping, limit>>

\* A consumer calls fetchMultipleCIDs(cids) (lines 140-143): the map loop
\* starts.
FetchMultipleCIDs(i, cids) ==
    /\ Idle
    /\ Len(batches) < limit.batches
    /\ Len(calls) + Len(cids) <= limit.calls
    /\ InOrderSeq(UsedCIDs, cids)
    /\ batches' = Append(batches,
                    [inst |-> i, cids |-> cids, ids |-> <<>>,
                     outcome |-> "pending", results |-> <<>>])
    /\ mapping' = Len(batches) + 1
    /\ UNCHANGED <<now, cache, status, calls, running, limit>>

\* CIDs.map (line 142): the next element's fetchCIDContent is entered.
MapNext(b) ==
    /\ running = 0 /\ mapping = b
    /\ Len(batches[b].ids) < Len(batches[b].cids)
    /\ LET cid == batches[b].cids[Len(batches[b].ids) + 1] IN
        /\ calls' = Append(calls, EnterCall(batches[b].inst, cid, b))
        /\ running' = IF IsFalsyCID(cid) THEN 0 ELSE Len(calls) + 1
    /\ batches' = [batches EXCEPT ![b].ids = Append(@, Len(calls) + 1)]
    /\ UNCHANGED <<now, cache, status, mapping, limit>>

\* The map loop ends; Promise.all (line 142) waits for the calls.
MapDone(b) ==
    /\ running = 0 /\ mapping = b
    /\ Len(batches[b].ids) = Len(batches[b].cids)
    /\ mapping' = 0
    /\ UNCHANGED <<now, cache, status, calls, batches, running, limit>>

\* Line 116 over a status mapping kept at module level, one for every
\* instance.
MarkLoadingShared(c) ==
    /\ AtLine(c, "L116")
    /\ status' = [i \in Instances |->
                    updateStatus(status[i], calls[c].cid,
                                 [loading |-> TRUE, error |-> JSNull], now)]
    /\ calls' = [calls EXCEPT ![c].pc = "L117"]
    /\ UNCHANGED <<now, cache, batches, running, mapping, limit>>

\* Line 116: updateStatus(CID, { loading: true, error: null }).
MarkLoading(c) ==
    /\ AtLine(c, "L116")
    /\ status' = [status EXCEPT ![calls[c].inst] =
                    updateStatus(@, calls[c].cid,
                                 [loading |-> TRUE, error |-> JSNull], now)]
    /\ calls' = [calls EXCEPT ![c].pc = "L117"]
    /\ UNCHANGED <<now, cache, batches, running, mapping, limit>>

\* Lines 117-121 with updateStatus(CID, { loading: false }) before the
\* return of line 120.
CacheLookupMarksSuccess(c) ==
    /\ AtLine(c, "L117")
    /\ cache' = CacheAfterGet(cache, calls[c].cid, now)
    /\ LET cachedResponse == CacheGetValue(cache, calls[c].cid, now) IN
        IF Truthy(cachedResponse)
        THEN /\ calls' = [calls EXCEPT
                            ![c] = Resolved([@ EXCEPT !.lookup = "hit",
                                                      !.lookupAt = now],
                                            cachedResponse)]
             /\ status' = [status EXCEPT ![calls[c].inst] =
                             updateStatus(@, calls[c].cid, [loading |-> FALSE], now)]
             /\ Yield
        ELSE /\ calls' = [calls EXCEPT ![c].lookup = "miss",
                                      ![c].lookupAt = now, ![c].pc = "L124"]
             /\ UNCHANGED <<running, status>>
    /\ UNCHANGED <<now, batches, mapping, limit>>

\* Lines 117-121: cache.get and the truthiness test of the response.
CacheLookup(c) ==
    /\ AtLine(c, "L117")
    /\ cache' = CacheAfterGet(cache, calls[c].cid, now)
    /\ LET cachedResponse == CacheGetValue(cache, calls[c].cid, now) IN
        IF Truthy(cachedResponse)
        THEN /\ calls' = [calls EXCEPT
                            ![c] = Resolved([@ EXCEPT !.lookup = "hit",
                                                      !.lookupAt = now],
                                            cachedResponse)]
             /\ Yield
        ELSE /\ calls' = [calls EXCEPT ![c].lookup = "miss",
                                      ![c].lookupAt = now, ![c].pc = "L124"]
             /\ UNCHANGED running
    /\ UNCHANGED <<now, status, batches, mapping, limit>>

\* Line 124 with request coalescing: a call joins the get another call has
\* in flight for the same CID instead of making its own.
InvokeCollaboratorShared(c) ==
    /\ AtLine(c, "L124")
    /\ calls' = [calls EXCEPT
                    ![c].pc = "L58",
                    ![c].invocations =
                        IF \E d \in CallIds :
                              d # c /\ calls[d].cid = calls[c].cid /\ calls[d].pc = "L58"
                        THEN @ ELSE @ + 1]
    /\ Yield
    /\ UNCHANGED <<now, cache, status, batches, mapping, limit>>

\* Lines 124, 53-58: fetchWithRetry(CID) calls pinata.gateways.get and the
\* call suspends on its promise.
InvokeCollaborator(c) ==
    /\ AtLine(c, "L124")
    /\ calls' = [calls EXCEPT ![c].pc = "L58", ![c].invocations = @ + 1]
    /\ Yield
    /\ UNCHANGED <<now, cache, status, batches, mapping, limit>>

\* Lines 58-60: the get resolves; fetchWithRetry returns the response to
\* line 124.
GetResolves(c) ==
    /\ Suspended(c, "L58")
    /\ calls' = [calls EXCEPT ![c].pc = "L125",
                              ![c].hist = Append(@, "ok"),
                              ![c].data = Payload(calls[c].cid)]
    /\ running' = c
    /\ UNCHANGED <<now, cache, status, batches, mapping, limit>>

\* Line 93 with <= for <: one attempt too many.
MayRetryOffByOne(retryCount) == retryCount <= DEFAULT_MAX_RETRIES

\* Line 93: whether another attempt is made.
MayRetry(retryCount) == retryCount < DEFAULT_MAX_RETRIES
\* Line 98 with a fixed delay.
RetryWaitFlat(retryCount) == RETRY_DELAY
\* Line 98: the delay before the next attempt.
RetryWait(retryCount) == RETRY_DELAY * (retryCount + 1)

\* The catch block with `throw error` for the `return null` of line 107:
\* the final failure reaches the catch of line 129 with its message.
CatchRaisesFinal(call, e, t) ==
    IF isAuthError(e) = "throws"
    THEN [call EXCEPT !.pc = "L130", !.hist = Append(@, Shape(e)),
                      !.exc = TypeErrorOf(e)]
    ELSE IF isAuthError(e) = "true"
    THEN [call EXCEPT !.pc = "L125", !.hist = Append(@, Shape(e)),
                      !.data = JSNull]
    ELSE IF MayRetry(call.retryCount)
    THEN [call EXCEPT !.pc = "L97", !.hist = Append(@, Shape(e)),
                      !.waits = Append(@, RetryWait(call.retryCount)),
                      !.wakeAt = t + RetryWait(call.retryCount)]
    ELSE IF ReadsMessage(e)
    THEN [call EXCEPT !.pc = "L130", !.hist = Append(@, Shape(e)),
                      !.exc = Str("final failure")]
    ELSE [call EXCEPT !.pc = "L130", !.hist = Append(@, Shape(e)),
                      !.exc = TypeErrorOf(e)]

\* The catch block of fetchWithRetry (lines 61-108) run by call on the
\* rejection e at time t:
\*   classifying throws (non-string message, null): the TypeError leaves
\*     fetchWithRetry and reaches the catch of line 129;
\*   an auth error (lines 85-91): no retry, fetchWithRetry returns null;
\*   any other error with retries left (lines 93-99): wait on a timer;
\*   retries exhausted (lines 103-107): the message is logged, which throws
\*     when the error is undefined, and fetchWithRetry returns null.
Catch(call, e, t) ==
    IF isAuthError(e) = "throws"
    THEN [call EXCEPT !.pc = "L130", !.hist = Append(@, Shape(e)),
                      !.exc = TypeErrorOf(e)]
    ELSE IF isAuthError(e) = "true"
    THEN [call EXCEPT !.pc = "L125", !.hist = Append(@, Shape(e)),
                      !.data = JSNull]
    ELSE IF MayRetry(call.retryCount)
    THEN [call EXCEPT !.pc = "L97", !.hist = Append(@, Shape(e)),
                      !.waits = Append(@, RetryWait(call.retryCount)),
                      !.wakeAt = t + RetryWait(call.retryCount)]
    ELSE IF ReadsMessage(e)
    THEN [call EXCEPT !.pc = "L125", !.hist = Append(@, Shape(e)),
                      !.data = JSNull]
    ELSE [call EXCEPT !.pc = "L130", !.hist = Append(@, Shape(e)),
                      !.exc = TypeErrorOf(e)]

\* Line 61: the get rejects with e and the catch block runs.  The call
\* then suspends on the retry timer or goes on to line 125 or line 130.
GetRejects(c, e) ==
    /\ Suspended(c, "L58")
    /\ c \in Faulty \/ Cardinality(Faulty) < limit.faulty
    /\ calls' = [calls EXCEPT ![c] = Catch(@, e, now)]
    /\ running' = IF Catch(calls[c], e, now).pc = "L97" THEN 0 ELSE c
    /\ UNCHANGED <<now, cache, status, batches, mapping, limit>>

\* Lines 97-99 with a timer callback that never calls resolve: the timer
\* fires and the call stays suspended.
TimerFiresUnresolved(c) ==
    /\ Suspended(c, "L97")
    /\ \A d \in CallIds : calls[d].pc = "L97" => calls[c].wakeAt <= calls[d].wakeAt
    /\ now' = IF now >= calls[c].wakeAt THEN now ELSE calls[c].wakeAt
    /\ calls' = [calls EXCEPT ![c].wakeAt = 0]
    /\ UNCHANGED <<cache, status, batches, running, mapping, limit>>

\* Line 100: the timer fires and fetchWithRetry(CID, retryCount + 1) makes
\* the next get.  The event loop runs the timer that is due first, when it
\* is due or, if the loop was busy then, as soon as it is idle.
TimerFires(c) ==
    /\ Suspended(c, "L97")
    /\ \A d \in CallIds : calls[d].pc = "L97" => calls[c].wakeAt <= calls[d].wakeAt
    /\ now' = IF now >= calls[c].wakeAt THEN now ELSE calls[c].wakeAt
    /\ calls' = [calls EXCEPT ![c].pc = "L58",
                              ![c].retryCount = @ + 1,
                              ![c].invocations = @ + 1,
                              ![c].wakeAt = 0]
    /\ UNCHANGED <<cache, status, batches, running, mapping, limit>>

\* Line 125: cache.set(CID, data).
CacheStore(c) ==
    /\ AtLine(c, "L125")
    /\ cache' = CacheAfterSet(cache, calls[c].cid, calls[c].data, now)
    /\ calls' = [calls EXCEPT ![c].pc = "L127"]
    /\ UNCHANGED <<now, status, batches, running, mapping, limit>>

\* Lines 127-128: updateStatus(CID, { loading: false }); return data.
MarkSuccess(c) ==
    /\ AtLine(c, "L127")
    /\ status' = [status EXCEPT ![calls[c].inst] =
                    updateStatus(@, calls[c].cid, [loading |-> FALSE], now)]
    /\ calls' = [calls EXCEPT ![c] = Resolved(@, @.data)]
    /\ Yield
    /\ UNCHANGED <<now, cache, batches, mapping, limit>>

\* Line 132: error.message || "Unknown error".
MessageOrUnknown(exc) == IF Truthy(exc) THEN exc ELSE Str("Unknown error")
\* The catch of lines 129-135 rethrowing the error after recording it.
CaughtRethrows(call) ==
    [call EXCEPT !.pc = "done", !.outcome = "rejected",
                 !.data = JSUndefined, !.exc = JSUndefined]

\* Lines 129-135: how the call ends once the catch block has run.
Caught(call) == Resolved(call, JSNull)

\* Lines 129-135: the catch of fetchCIDContent records the error and
\* returns null.
CatchError(c) ==
    /\ AtLine(c, "L130")
    /\ status' = [status EXCEPT ![calls[c].inst] =
                    updateStatus(@, calls[c].cid,
                                 [loading |-> FALSE,
                                  error |-> MessageOrUnknown(calls[c].exc)], now)]
    /\ calls' = [calls EXCEPT ![c] = Caught(@)]
    /\ Yield
    /\ UNCHANGED <<now, cache, batches, mapping, limit>>

\* Promise.all (line 142) over the promises of the calls ids: it rejects as
\* soon as one rejects, and resolves with the results in input order once
\* all have resolved.
AllSettled(ids) ==
    \/ \E k \in 1..Len(ids) : calls[ids[k]].outcome = "rejected"
    \/ \A k \in 1..Len(ids) : calls[ids[k]].outcome = "resolved"
AllOutcome(ids) ==
    IF \E k \in 1..Len(ids) : calls[ids[k]].outcome = "rejected"
    THEN "rejected" ELSE "resolved"
\* The results with the failed fetches left out.
AllResultsSkipNull(ids) ==
    SelectSeq([k \in 1..Len(ids) |-> calls[ids[k]].result], LAMBDA v : v # JSNull)
AllResults(ids) == [k \in 1..Len(ids) |-> calls[ids[k]].result]

PromiseAllSettles(b) ==
    /\ Idle
    /\ b \in 1..Len(batches)
    /\ batches[b].outcome = "pending"
    /\ AllSettled(batches[b].ids)
    /\ batches' = [batches EXCEPT
                     ![b].outcome = AllOutcome(batches[b].ids),
                     ![b].results = IF AllOutcome(batches[b].ids) = "resolved"
                                    THEN AllResults(batches[b].ids) ELSE <<>>]
    /\ UNCHANGED <<now, cache, status, calls, running, mapping, limit>>

\* A long idle period: with no timer pending, the clock passes the cache's
\* ttl, reaching it exactly (d = 0) or going d past it.
LongWait(d) ==
    /\ Idle
    /\ \A c \in CallIds : calls[c].pc # "L97"
    /\ cache # <<>>
    /\ now < DEFAULT_TTL
    /\ now' = now + DEFAULT_TTL + d
    /\ UNCHANGED <<cache, status, calls, batches, running, mapping, limit>>

\* A short idle period early in the session: with no timer pending, the
\* clock advances by one retry delay.
ShortWait ==
    /\ Idle
    /\ \A c \in CallIds : calls[c].pc # "L97"
    /\ cache # <<>>
    /\ now < RETRY_DELAY
    /\ now' = now + RETRY_DELAY
    /\ UNCHANGED <<cache, status, calls, batches, running, mapping, limit>>

StartsCall == \E i \in limit.insts : \E cid \in AllCIDs : FetchCIDContent(i, cid)
StartsBatch == \E i \in limit.insts : \E cids \in BatchInputs : FetchMultipleCIDs(i, cids)
Rejects(c) == \E e \in Rejections : GetRejects(c, e)

\* The steps of the calls in progress.
CallSteps ==
    \/ \E c \in 1..Len(calls) : MarkLoading(c)
    \/ \E c \in 1..Len(calls) : CacheLookup(c)
    \/ \E c \in 1..Len(calls) : InvokeCollaborator(c)
    \/ \E c \in 1..Len(calls) : GetResolves(c)
    \/ \E c \in 1..Len(calls) : Rejects(c)
    \/ \E c \in 1..Len(calls) : TimerFires(c)
    \/ \E c \in 1..Len(calls) : CacheStore(c)
    \/ \E c \in 1..Len(calls) : MarkSuccess(c)
    \/ \E c \in 1..Len(calls) : CatchError(c)
BatchSteps ==
    \/ \E b \in 1..Len(batches) : MapNext(b)
    \/ \E b \in 1..Len(batches) : MapDone(b)
    \/ \E b \in 1..Len(batches) : PromiseAllSettles(b)
Waits == \E d \in {0, 1} : LongWait(d)

Next == StartsCall \/ StartsBatch \/ BatchSteps \/ CallSteps \/ Waits
\* The consumer only calls fetchMultipleCIDs.
NextFanOut == StartsBatch \/ BatchSteps \/ CallSteps \/ Waits
\* The consumer only calls fetchCIDContent, in a session shorter than the
\* cache's ttl.
NextCache == StartsCall \/ CallSteps
\* The consumer only calls fetchCIDContent, with idle periods between calls.
NextTtl == StartsCall \/ CallSteps \/ Waits \/ ShortWait
\* The consumer calls both operations, in a session shorter than the ttl.
NextOrder == StartsCall \/ StartsBatch \/ BatchSteps \/ CallSteps

Spec == Init /\ [][Next]_vars
SpecFanOut == InitFanOut /\ [][NextFanOut]_vars
SpecCache == InitCache /\ [][NextCache]_vars
SpecTtl == InitTtl /\ [][NextTtl]_vars
SpecOrder == InitOrder /\ [][NextOrder]_vars
SpecShare == InitShare /\ [][Next]_vars

\* Scheduling: the engine runs every synchronous segment to its end, the
\* collaborator settles every get, every timer fires once it is due, and
\* Promise.all settles once its promises have.
RunsToAwait(c) ==
    \/ MarkLoading(c) \/ CacheLookup(c) \/ InvokeCollaborator(c)
    \/ CacheStore(c) \/ MarkSuccess(c) \/ CatchError(c)
GetSettles(c) == GetResolves(c) \/ Rejects(c)
MapRuns(b) == MapNext(b) \/ MapDone(b) \/ PromiseAllSettles(b)
Fairness ==
    /\ \A c \in 1..MaxCalls : WF_vars(RunsToAwait(c))
    /\ \A c \in 1..MaxCalls : WF_vars(GetSettles(c))
    /\ \A c \in 1..MaxCalls : WF_vars(TimerFires(c))
    /\ \A b \in 1..MaxBatches : WF_vars(MapRuns(b))
SpecLive == Init /\ [][Next]_vars /\ Fairness

(***************************************************************************)
(* Vocabulary of the properties.                                           *)
(***************************************************************************)
Done(c) == calls[c].pc = "done"
Last(h) == h[Len(h)]
\* Collaborator gets made so far for cid, over all calls.
RECURSIVE GetsUpTo(_, _)
GetsUpTo(n, cid) ==
    IF n = 0 THEN 0
    ELSE GetsUpTo(n - 1, cid)
         + (IF calls[n].cid = cid THEN calls[n].invocations ELSE 0)
Gets(cid) == GetsUpTo(Len(calls), cid)
\* The call c, if any, that ends in this step.
Completes(c) == c \in CallIds /\ ~Done(c) /\ calls'[c].pc = "done"
IsResult(v, cid) == v = JSNull \/ v = Payload(cid)

(***************************************************************************)
(* C1.  Whatever the collaborator does (it resolves, or rejects with an   *)
(* auth error, any other error, or something that is no error object at   *)
(* all, on any attempt), no call of fetchCIDContent and no call of         *)
(* fetchMultipleCIDs ends rejected: a finished fetchCIDContent has        *)
(* resolved to the CID's payload or to null, a finished fetchMultipleCIDs  *)
(* to a sequence of such values.                                           *)
(***************************************************************************)
C1_NeverRejects ==
    /\ \A c \in CallIds :
          /\ calls[c].outcome # "rejected"
          /\ Done(c) => /\ calls[c].outcome = "resolved"
                        /\ IsResult(calls[c].result, calls[c].cid)
    /\ \A b \in 1..Len(batches) :
          /\ batches[b].outcome # "rejected"
          /\ batches[b].outcome = "resolved" =>
                \A k \in 1..Len(batches[b].results) :
                    IsResult(batches[b].results[k], batches[b].cids[k])

\* A call has resolved to null after the catch block of fetchWithRetry
\* itself threw, on the third rejection.
C1_Witness ==
    \E c \in CallIds :
        /\ Done(c) /\ Len(calls[c].hist) = 3 /\ Last(calls[c].hist) = "malformed"
        /\ calls[c].outcome = "resolved" /\ calls[c].result = JSNull
        /\ getError(status[calls[c].inst], calls[c].cid) # JSNull

(***************************************************************************)
(* C2.  As claimed: when every attempt of a fetch fails with a transient   *)
(* (non-auth) error and the retries are exhausted, the call returns null  *)
(* and, when it completes, getError of the CID is not null.               *)
(***************************************************************************)
C2_ExhaustedSetsError ==
    [][\A c \in CallIds :
          (Completes(c) /\ calls'[c].hist = <<"transient", "transient", "transient">>)
          => /\ calls'[c].result = JSNull
             /\ getError(status'[calls[c].inst], calls[c].cid) # JSNull]_vars

(***************************************************************************)
(* C3.  As claimed: a call of fetchCIDContent made for a CID after an      *)
(* earlier call for it has completed (with a payload or with null), while  *)
(* the entry is in the cache and fresh, returns the cached value and       *)
(* makes no collaborator get.                                              *)
(***************************************************************************)
\* The cache holds a fresh entry for cid.
Cached(cid) ==
    cid \in CacheKeys(cache) /\ ~IsStale(cache[CacheIndex(cache, cid)], now)
C3_SecondCallCached ==
    [][\A c \in CallIds :
          (/\ AtLine(c, "L117")
           /\ Cached(calls[c].cid)
           /\ \E d \in 1..(c - 1) : calls[d].cid = calls[c].cid /\ Done(d))
          => /\ Done(c)'
             /\ calls'[c].result = cache[CacheIndex(cache, calls[c].cid)].value
             /\ calls'[c].invocations = 0]_vars

(***************************************************************************)
(* C4.  If the first collaborator get of a fetch rejects with an auth      *)
(* error (an error object whose message contains "403" or "Authentication *)
(* Failed", whose response.status is 403, whose name is                    *)
(* "AuthenticationError" or whose code is the sentinel), the fetch makes  *)
(* exactly one get, takes no retry delay, and its result is null.          *)
(***************************************************************************)
C4_AuthNoRetry ==
    [][\A c \in CallIds :
          /\ \A e \in Rejections :
                (Shape(e) = "auth" /\ calls[c].retryCount = 0 /\ GetRejects(c, e))
                => /\ calls'[c].pc = "L125"
                   /\ calls'[c].data = JSNull
                   /\ calls'[c].hist = <<"auth">>
          /\ (calls'[c].hist # <<>> /\ calls'[c].hist[1] = "auth")
             => /\ calls'[c].invocations = 1
                /\ calls'[c].waits = <<>>
                /\ calls'[c].pc \in {"L125", "L127", "done"}
                /\ Done(c)' => calls'[c].result = JSNull]_vars

\* A fetch whose only get was rejected with an auth error has returned
\* null.
C4_Witness ==
    \E c \in CallIds :
        /\ Done(c) /\ calls[c].hist = <<"auth">>
        /\ calls[c].invocations = 1 /\ calls[c].waits = <<>>
        /\ calls[c].result = JSNull

(***************************************************************************)
(* C5.  A fetch whose first k gets fail with transient errors and whose   *)
(* next get succeeds makes exactly k + 1 gets (k <= 2) and results in the *)
(* payload; a fetch whose gets all fail with transient errors makes       *)
(* exactly DEFAULT_MAX_RETRIES + 1 = 3 gets and results in null; no fetch  *)
(* makes more than 3 gets.                                                 *)
(***************************************************************************)
Transients(k) == [j \in 1..k |-> "transient"]
C5_RetryCount ==
    \A c \in CallIds :
        /\ calls[c].invocations <= 3
        /\ Len(calls[c].hist) <= calls[c].invocations
        /\ Done(c) =>
            /\ \A k \in 0..3 :
                  calls[c].hist = Append(Transients(k), "ok")
                  => /\ k <= 2
                     /\ calls[c].invocations = k + 1
                     /\ calls[c].result = Payload(calls[c].cid)
            /\ calls[c].hist = Transients(Len(calls[c].hist)) /\ calls[c].hist # <<>>
                  => /\ calls[c].invocations = 3
                     /\ calls[c].result = JSNull

\* A fetch has succeeded on its third get, after two transient failures and
\* the two delays.
C5_Witness ==
    \E c \in CallIds :
        /\ Done(c) /\ calls[c].hist = <<"transient", "transient", "ok">>
        /\ calls[c].invocations = 3 /\ calls[c].result = Payload(calls[c].cid)
        /\ Len(calls[c].waits) = 2

(***************************************************************************)
(* C6.  fetchMultipleCIDs(CIDs) completes only once every one of its      *)
(* fetches has completed, and resolves to a sequence as long as CIDs      *)
(* whose element k is the result of the fetch of CIDs[k]: the payload of  *)
(* CIDs[k] when that fetch's last get succeeded, null when it failed; a    *)
(* failure at one position changes nothing at the others, in whatever     *)
(* order the fetches complete.                                             *)
(***************************************************************************)
C6_FanOutPositional ==
    \A b \in 1..Len(batches) :
        /\ batches[b].outcome # "pending" =>
              /\ Len(batches[b].ids) = Len(batches[b].cids)
              /\ \A k \in 1..Len(batches[b].ids) : Done(batches[b].ids[k])
        /\ batches[b].outcome = "resolved" =>
              /\ Len(batches[b].results) = Len(batches[b].cids)
              /\ \A k \in 1..Len(batches[b].cids) :
                    LET call == calls[batches[b].ids[k]] IN
                    /\ call.cid = batches[b].cids[k]
                    /\ call.batch = b
                    /\ batches[b].results[k] = call.result
                    /\ call.hist # <<>> =>
                          batches[b].results[k] =
                              IF Last(call.hist) = "ok"
                              THEN Payload(batches[b].cids[k]) ELSE JSNull

\* fetchMultipleCIDs(["a","b","c"]) has resolved with the fetch of "b"
\* failed: null at position 2, the payloads at positions 1 and 3.
C6_Witness ==
    \E b \in 1..Len(batches) :
        /\ batches[b].outcome = "resolved"
        /\ batches[b].cids = <<"a", "b", "c">>
        /\ batches[b].results = <<Payload("a"), JSNull, Payload("c")>>
        /\ Last(calls[batches[b].ids[2]].hist) # "ok"

(***************************************************************************)
(* C7.  A call of fetchCIDContent with an empty CID returns null at once   *)
(* and changes nothing: the step that makes it leaves the status mapping  *)
(* (every key), the cache and the number of collaborator gets as they     *)
(* were, and no later step acts for it.                                    *)
(***************************************************************************)
EmptyCIDInert ==
    /\ \A c \in CallIds :
          calls[c].cid = EmptyCID
          => /\ Done(c) /\ calls[c].result = JSNull
             /\ calls[c].invocations = 0 /\ calls[c].lookup = "none"
    /\ \A i \in Instances : EmptyCID \notin DOMAIN status[i]
    /\ EmptyCID \notin CacheKeys(cache)
C7_EmptyCIDNoEffect ==
    [][/\ (Len(calls') = Len(calls) + 1 /\ calls'[Len(calls')].cid = EmptyCID)
          => /\ status' = status
             /\ cache' = cache
             /\ \A cid \in AllCIDs : Gets(cid)' = Gets(cid)
       /\ EmptyCIDInert']_vars

\* fetchCIDContent("") has returned null in a session whose status mapping
\* and cache are not empty.
C7_Witness ==
    \E c \in CallIds :
        /\ calls[c].cid = EmptyCID /\ Done(c) /\ calls[c].result = JSNull
        /\ DOMAIN status[calls[c].inst] # {}
        /\ cache # <<>>

(***************************************************************************)
(* C8.  Every step changes the status entry of at most the CID of the     *)
(* fetch that is executing, in that fetch's instance, and leaves every    *)
(* other entry as it was; so while fetches of different CIDs interleave,  *)
(* the entry of a CID fetched by one call only shows that call's own      *)
(* progress (loading while it is in flight, not loading once its miss     *)
(* path has completed).                                                    *)
(***************************************************************************)
EntryChanges(i, cid) ==
    \/ (cid \in DOMAIN status[i]) # (cid \in DOMAIN status'[i])
    \/ /\ cid \in DOMAIN status[i] /\ cid \in DOMAIN status'[i]
       /\ status'[i][cid] # status[i][cid]
OnlyCallFor(c) ==
    \A d \in CallIds :
        (d # c /\ calls[d].inst = calls[c].inst) => calls[d].cid # calls[c].cid
OwnProgressShown ==
    \A c \in CallIds :
        (calls[c].cid # EmptyCID /\ OnlyCallFor(c))
        => /\ calls[c].pc \notin {"L116", "done"}
                => /\ isLoading(status[calls[c].inst], calls[c].cid)
                   /\ getError(status[calls[c].inst], calls[c].cid) = JSNull
           /\ (Done(c) /\ calls[c].lookup = "miss")
                => ~isLoading(status[calls[c].inst], calls[c].cid)
C8_StatusIsolation ==
    [][/\ \A i \in Instances : \A cid \in AllCIDs :
             EntryChanges(i, cid)
             => /\ running # 0
                /\ calls[running].inst = i
                /\ calls[running].cid = cid
       /\ OwnProgressShown']_vars

\* Two fetches of different CIDs overlapped: the later one has completed
\* while the earlier one is still waiting for the collaborator, and each
\* CID's entry shows its own fetch.
C8_Witness ==
    \E c, d \in CallIds :
        /\ c < d /\ calls[c].inst = calls[d].inst
        /\ calls[c].cid # calls[d].cid
        /\ calls[c].pc = "L58"
        /\ Done(d) /\ calls[d].lookup = "miss"
        /\ isLoading(status[calls[c].inst], calls[c].cid)
        /\ ~isLoading(status[calls[d].inst], calls[d].cid)

(***************************************************************************)
(* C9.  No step removes a status entry, and for every CID that has not    *)
(* been fetched through an instance, that instance has no entry for it,   *)
(* isLoading is false and getError is null.                                *)
(***************************************************************************)
Fetched(i, cid) ==
    \E c \in CallIds :
        calls[c].inst = i /\ calls[c].cid = cid /\ calls[c].pc # "L116"
NeverFetchedDefaults ==
    \A i \in Instances : \A cid \in CIDs :
        ~Fetched(i, cid)
        => /\ cid \notin DOMAIN status[i]
           /\ isLoading(status[i], cid) = FALSE
           /\ getError(status[i], cid) = JSNull
C9_StatusPersists ==
    [][/\ \A i \in Instances : DOMAIN status[i] \subseteq DOMAIN status'[i]
       /\ NeverFetchedDefaults']_vars

\* "a" has been fetched and has kept its entry while a second call ran;
\* "c" has never been fetched.
C9_Witness ==
    /\ Len(calls) = 2 /\ \A c \in CallIds : Done(c)
    /\ "a" \in DOMAIN status["A"]
    /\ ~Fetched("A", "c")
    /\ "c" \notin DOMAIN status["A"]

(***************************************************************************)
(* C10.  The cache never holds more than CacheMax entries.  A get that    *)
(* finds a fresh entry and a set both leave their key most recently used  *)
(* and keep the order of the other keys, so the order of the cache is     *)
(* the order of last use; a set of a new key into a full cache removes    *)
(* exactly the least recently used entry (so never the entry a get has    *)
(* just read, when there is another).                                      *)
(***************************************************************************)
C10_LruBound ==
    [][/\ Len(cache') <= CacheMax
       /\ Cardinality(CacheKeys(cache')) = Len(cache')
       /\ \A c \in CallIds :
             /\ (AtLine(c, "L117") /\ Cached(calls[c].cid))
                => /\ Last(cache') = cache[CacheIndex(cache, calls[c].cid)]
                   /\ CacheWithout(cache', calls[c].cid)
                        = CacheWithout(cache, calls[c].cid)
                   /\ Len(cache) > 1 => Head(cache').key # calls[c].cid
             /\ AtLine(c, "L125")
                => /\ Last(cache').key = calls[c].cid
                   /\ Last(cache').value = calls[c].data
                   /\ CacheWithout(cache', calls[c].cid) =
                        IF \/ calls[c].cid \in CacheKeys(cache)
                           \/ Len(cache) < CacheMax
                        THEN CacheWithout(cache, calls[c].cid)
                        ELSE Tail(cache)]_vars

\* "a" then "b" were stored, "a" was read from the cache, and storing "c"
\* evicted "b", not "a".
C10_Witness ==
    /\ Len(calls) = 4 /\ \A c \in CallIds : Done(c)
    /\ calls[1].cid = "a" /\ calls[2].cid = "b"
    /\ calls[3].cid = "a" /\ calls[3].lookup = "hit"
    /\ calls[4].cid = "c" /\ calls[4].lookup = "miss"
    /\ calls[1].result = Payload("a") /\ calls[2].result = Payload("b")
    /\ CacheKeys(cache) = {"a", "c"}
    /\ Head(cache).key = "a"

(***************************************************************************)
(* C11.  An entry's age runs from its insertion: cache.set stamps the      *)
(* entry with the time of the set and no other step changes the stamp of   *)
(* an entry that stays (a get that returns it included).  A get made more  *)
(* than the ttl after the insertion (at a time > T + TTL) does not return  *)
(* the entry: the lookup misses, the entry is removed, and the call goes   *)
(* on to invoke the collaborator.                                          *)
(***************************************************************************)
\* The entry of cid in the cache c.
EntryOf(c, cid) == c[CacheIndex(c, cid)]
\* Every entry that stays in the cache over the step keeps its stamp,
\* unless the step is the cache.set of its key.
StampsKept ==
    \A k \in CacheKeys(cache) \cap CacheKeys(cache') :
        \/ EntryOf(cache', k).start = EntryOf(cache, k).start
        \/ \E c \in CallIds : AtLine(c, "L125") /\ calls[c].cid = k
\* The step taken by a call at line 117 whose CID has an entry inserted
\* minAge or more milliseconds earlier: a miss that removes the entry.
AbsentFromAge(minAge) ==
    \A c \in CallIds :
        (/\ AtLine(c, "L117")
         /\ calls[c].cid \in CacheKeys(cache)
         /\ now - EntryOf(cache, calls[c].cid).start >= minAge)
        => /\ calls'[c].lookup = "miss"
           /\ calls'[c].pc = "L124"
           /\ calls[c].cid \notin CacheKeys(cache')
\* A call that missed invokes the collaborator next; a set stamps its entry.
MissInvokes ==
    \A c \in CallIds :
        /\ AtLine(c, "L124") => /\ calls'[c].invocations = calls[c].invocations + 1
                                /\ calls'[c].pc = "L58"
        /\ (AtLine(c, "L125") /\ calls[c].data # JSUndefined)
              => EntryOf(cache', calls[c].cid).start = now
Holds(c, cid, v) == cid \in CacheKeys(c) /\ EntryOf(c, cid).value = v
\* No get of the call ended outside the collaborator's contract.
InContract(h) == \A k \in 1..Len(h) : h[k] # "malformed"
C12_MissStoresThenMarks ==
    [][/\ \A c \in CallIds :
             /\ AtLine(c, "L125")
                => /\ IsResult(calls[c].data, calls[c].cid)
                   /\ Holds(cache', calls[c].cid, calls[c].data)
                   /\ status' = status
                   /\ calls'[c].pc = "L127"
             /\ AtLine(c, "L127")
                => /\ Holds(cache, calls[c].cid, calls[c].data)
                   /\ cache' = cache
                   /\ ~isLoading(status'[calls[c].inst], calls[c].cid)
                   /\ Done(c)' /\ calls'[c].result = calls[c].data
             /\ (Completes(c) /\ calls[c].lookup = "miss" /\ InContract(calls[c].hist))
                => calls[c].pc = "L127"
       /\ status' # status
          => running # 0 /\ calls[running].pc \in {"L116", "L127", "L130"}]_vars

\* A fetch that missed and ended in an auth failure has returned null with
\* null stored under its CID and loading false.
C12_Witness ==
    \E c \in CallIds :
        /\ Done(c) /\ calls[c].lookup = "miss" /\ calls[c].hist = <<"auth">>
        /\ calls[c].result = JSNull
        /\ Holds(cache, calls[c].cid, JSNull)
        /\ ~isLoading(status[calls[c].inst], calls[c].cid)

(***************************************************************************)
(* C13.  A call served from the cache has marked its CID loading and       *)
(* returns the cached value with no further status update, so isLoading    *)
(* of the CID is true when the call has completed; and isLoading of a CID  *)
(* turns from true to false only in the step that completes a miss-path    *)
(* fetch of that CID through that instance (line 127 or line 130).         *)
(***************************************************************************)
C13_HitLeavesLoading ==
    [][/\ \A c \in CallIds :
             (AtLine(c, "L117") /\ Truthy(CacheGetValue(cache, calls[c].cid, now)))
             => /\ Done(c)' /\ calls'[c].lookup = "hit"
                /\ calls'[c].result = CacheGetValue(cache, calls[c].cid, now)
                /\ status' = status
                /\ isLoading(status'[calls[c].inst], calls[c].cid)
       /\ \A i \in Instances : \A cid \in CIDs :
             (isLoading(status[i], cid) /\ ~isLoading(status'[i], cid))
             => /\ running # 0
                /\ calls[running].inst = i /\ calls[running].cid = cid
                /\ calls[running].lookup = "miss"
                /\ calls[running].pc \in {"L127", "L130"}
                /\ calls'[running].pc = "done"]_vars

\* Every call has completed, the last one for its CID was served from the
\* cache, and isLoading of that CID is still true.
C13_Witness ==
    /\ \A c \in CallIds : Done(c)
    /\ \E c, d \in CallIds :
          /\ c < d /\ calls[c].cid = calls[d].cid /\ calls[c].inst = calls[d].inst
          /\ calls[c].lookup = "miss" /\ calls[d].lookup = "hit"
          /\ calls[d].result = Payload(calls[d].cid)
          /\ isLoading(status[calls[d].inst], calls[d].cid)

(***************************************************************************)
(* C14.  A call of fetchCIDContent that reads the cache while another call *)
(* for the same CID is in flight, and finds no cached response, misses     *)
(* and in the same synchronous segment makes a collaborator get of its     *)
(* own: whenever two calls for one CID have both missed and gone past      *)
(* line 124, each has made at least one get (at least two for the CID),    *)
(* and what a call that missed returns is decided by its own gets, not by  *)
(* the other call's result.                                                *)
(***************************************************************************)
InFlight(c) == calls[c].pc \in {"L58", "L97"}
C14_NoSingleFlight ==
    [][\A d \in CallIds :
          /\ (/\ AtLine(d, "L117")
              /\ ~Truthy(CacheGetValue(cache, calls[d].cid, now))
              /\ \E c \in CallIds : c # d /\ calls[c].cid = calls[d].cid /\ InFlight(c))
             => calls'[d].lookup = "miss" /\ calls'[d].pc = "L124" /\ running' = d
          /\ AtLine(d, "L124")
             => /\ calls'[d].invocations = calls[d].invocations + 1
                /\ calls'[d].pc = "L58"
          /\ \A c \in CallIds :
                (/\ c # d /\ calls'[c].cid = calls'[d].cid
                 /\ calls'[c].lookup = "miss" /\ calls'[d].lookup = "miss"
                 /\ calls'[c].pc # "L124" /\ calls'[d].pc # "L124")
                => /\ calls'[c].invocations >= 1 /\ calls'[d].invocations >= 1
                   /\ Gets(calls[d].cid)' >= 2
          /\ (Done(d)' /\ calls'[d].lookup = "miss")
             => /\ calls'[d].hist # <<>>
                /\ calls'[d].result = IF Last(calls'[d].hist) = "ok"
                                      THEN Payload(calls'[d].cid) ELSE JSNull]_vars

\* Two calls for one CID are waiting for the collaborator at once, each on
\* a get of its own.
C14_Witness ==
    \E c, d \in CallIds :
        /\ c < d /\ calls[c].cid = calls[d].cid
        /\ calls[c].pc = "L58" /\ calls[d].pc = "L58"
        /\ calls[c].lookup = "miss" /\ calls[d].lookup = "miss"
        /\ calls[c].invocations = 1 /\ calls[d].invocations = 1
        /\ Gets(calls[c].cid) = 2

(***************************************************************************)
(* C15.  Within a call for a non-empty CID the loading mark (loading true, *)
(* error null, lastUpdated refreshed) comes first, then the cache lookup,  *)
(* then, only after a miss, the collaborator gets.  fetchMultipleCIDs      *)
(* enters its fetches in input order, each one's loading mark issued       *)
(* before the next is entered, and all the marks are issued before any     *)
(* fetch of the fan-out that missed the cache completes.                   *)
(***************************************************************************)
\* The loading mark of call c has been issued (or c has none to issue).
Marked(c) == calls[c].cid = EmptyCID \/ calls[c].pc # "L116"
StepsInOrder ==
    \A c \in CallIds :
        /\ calls[c].pc \in {"L116", "L117"}
              => calls[c].lookup = "none" /\ calls[c].invocations = 0
        /\ calls[c].pc = "L117"
              => /\ isLoading(status[calls[c].inst], calls[c].cid)
                 /\ getError(status[calls[c].inst], calls[c].cid) = JSNull
                 /\ getLastUpdated(status[calls[c].inst], calls[c].cid) = now
        /\ calls[c].lookup # "none" => calls[c].cid \in DOMAIN status[calls[c].inst]
        /\ calls[c].invocations > 0 => calls[c].lookup = "miss"
        /\ calls[c].lookup = "hit" => calls[c].invocations = 0 /\ Done(c)
\* Fan-out b enters its fetches and issues their marks in input order, and
\* a fetch of it whose lookup ended as one of kinds completes only after
\* all the marks.
MarksBeforeCompletion(b, kinds) ==
    /\ \A k \in 1..Len(batches[b].ids) :
          /\ calls[batches[b].ids[k]].cid = batches[b].cids[k]
          /\ \A j \in 1..(k - 1) :
                /\ batches[b].ids[j] < batches[b].ids[k]
                /\ Marked(batches[b].ids[j])
    /\ \A k \in 1..Len(batches[b].ids) :
          (Done(batches[b].ids[k]) /\ calls[batches[b].ids[k]].lookup \in kinds)
          => /\ mapping # b
             /\ Len(batches[b].ids) = Len(batches[b].cids)
             /\ \A j \in 1..Len(batches[b].ids) : Marked(batches[b].ids[j])
Missed(c) == calls[c].lookup = "miss"
C15_Ordering ==
    /\ StepsInOrder
    /\ \A b \in 1..Len(batches) : MarksBeforeCompletion(b, {"miss"})

\* As claimed: all the loading marks of a fan-out are issued before any of
\* its fetches completes, served from the cache or not (a fetch of an empty
\* CID, which consults nothing, left aside).
C15_MarksBeforeAnyCompletion ==
    \A b \in 1..Len(batches) : MarksBeforeCompletion(b, {"miss", "hit"})

\* In a fan-out of two, both marks were issued, both fetches missed, and
\* the second has completed while the first still waits for its get.
C15_Witness ==
    \E b \in 1..Len(batches) :
        /\ Len(batches[b].ids) = 2
        /\ calls[batches[b].ids[1]].pc = "L58"
        /\ isLoading(status[batches[b].inst], batches[b].cids[1])
        /\ Done(batches[b].ids[2]) /\ Missed(batches[b].ids[2])
        /\ calls[batches[b].ids[2]].invocations >= 1

(***************************************************************************)
(* C16.  The n-th wait of a fetch (n = 1, 2) is RETRY_DELAY * n, so 1000   *)
(* ms then 2000 ms, and the timer started at a rejection fires no earlier  *)
(* than that long after it.  A fetch has made one get more than the waits  *)
(* it has finished: none before its first get, exactly one before each     *)
(* later get.  A wait follows each of the first two transient failures     *)
(* and nothing else: none follows an auth failure, a success, or the       *)
(* third failure.                                                          *)
(***************************************************************************)
WaitsAreLinear ==
    \A c \in CallIds :
        /\ Len(calls[c].waits) <= DEFAULT_MAX_RETRIES
        /\ \A n \in 1..Len(calls[c].waits) : calls[c].waits[n] = RETRY_DELAY * n
        /\ \A n \in 2..Len(calls[c].waits) : calls[c].waits[n] > calls[c].waits[n - 1]
        /\ calls[c].pc \in {"L116", "L117", "L124"}
              => calls[c].waits = <<>> /\ calls[c].invocations = 0
        /\ calls[c].pc = "L97"
              => /\ calls[c].invocations = Len(calls[c].waits)
                 /\ Len(calls[c].hist) = Len(calls[c].waits)
        /\ (calls[c].invocations > 0 /\ calls[c].pc # "L97")
              => calls[c].invocations = Len(calls[c].waits) + 1
        /\ Len(calls[c].waits) <= Len(calls[c].hist)
        /\ \A k \in 1..Len(calls[c].hist) :
              /\ (calls[c].hist[k] = "transient" /\ k <= DEFAULT_MAX_RETRIES)
                    => Len(calls[c].waits) >= k
              /\ calls[c].hist[k] \in {"auth", "ok"}
                    => k = Len(calls[c].hist) /\ Len(calls[c].waits) = k - 1
C16_LinearBackoff ==
    [][/\ WaitsAreLinear'
       /\ \A c \in CallIds :
             /\ (calls[c].pc = "L58" /\ calls'[c].pc = "L97")
                => /\ calls'[c].waits =
                         Append(calls[c].waits, RETRY_DELAY * (Len(calls[c].waits) + 1))
                   /\ calls'[c].wakeAt = now + RETRY_DELAY * (Len(calls[c].waits) + 1)
                   /\ now' = now
             /\ (calls[c].pc = "L97" /\ calls'[c].pc # "L97")
                => /\ now' >= calls[c].wakeAt
                   /\ calls'[c].pc = "L58"
                   /\ calls'[c].invocations = calls[c].invocations + 1
                   /\ calls'[c].waits = calls[c].waits]_vars

\* A fetch has failed three times with transient errors: it waited 1000 ms
\* and 2000 ms, made three gets, and took no wait after the last failure.
C16_Witness ==
    \E c \in CallIds :
        /\ Done(c) /\ calls[c].hist = <<"transient", "transient", "transient">>
        /\ calls[c].waits = <<1000, 2000>>
        /\ calls[c].invocations = 3
        /\ now >= 3000

(***************************************************************************)
(* C17.  Under Fairness (every get settles, every timer fires, every       *)
(* synchronous segment runs to its end), every call of fetchCIDContent     *)
(* that has been made eventually completes with a result, and every call   *)
(* of fetchMultipleCIDs eventually settles.                                *)
(***************************************************************************)
C17_Terminates ==
    /\ \A c \in 1..MaxCalls :
          (c \in CallIds) ~>
              (/\ c \in CallIds
               /\ Done(c) /\ calls[c].outcome = "resolved"
               /\ IsResult(calls[c].result, calls[c].cid))
    /\ \A b \in 1..MaxBatches :
          (b \in 1..Len(batches)) ~>
              (b \in 1..Len(batches) /\ batches[b].outcome = "resolved")

\* A fan-out has resolved although one of its fetches went through both
\* retry delays.
C17_Witness ==
    \E b \in 1..Len(batches) :
        /\ batches[b].outcome = "resolved"
        /\ \E k \in 1..Len(batches[b].ids) :
              /\ Len(calls[batches[b].ids[k]].waits) = DEFAULT_MAX_RETRIES
              /\ calls[batches[b].ids[k]].invocations = DEFAULT_MAX_RETRIES + 1

(***************************************************************************)
(* C18.  The cache is one store for all instances: a call through one      *)
(* instance that finds, fresh in the cache, the payload a call through     *)
(* another instance fetched and stored is served from the cache and makes  *)
(* no collaborator get.  The status mappings are per instance: a step      *)
(* changes the mapping of at most the instance of the call that is         *)
(* executing, and an instance has entries only for the CIDs fetched        *)
(* through it.                                                             *)
(***************************************************************************)
FetchedThrough(i) ==
    { calls[c].cid : c \in { d \in CallIds : calls[d].inst = i /\ Marked(d) } }
    \ {EmptyCID}
C19_PayloadNotReplacedByNull ==
    [][\A cid \in CIDs :
          (Cached(cid) /\ Holds(cache, cid, Payload(cid)))
          => ~Holds(cache', cid, JSNull)]_vars

====
